---- MODULE Spec2Model ----
(***************************************************************************)
(* Real-time collaboration state of codecollab-backend (src/server.js).    *)
(* src/server.js holds three revisions of the server, each with its own    *)
(* socket handlers; the variable ver selects the revision that is running. *)
(*   ver = 1 : lines    1 ..  464                                          *)
(*   ver = 2 : lines  465 .. 1048                                          *)
(*   ver = 3 : lines 1049 .. 1490                                          *)
(* CodeState.setTyping / clearTyping (src/CodeState.js) are modelled on    *)
(* one in-memory document.  Code execution is the execute-code listener of *)
(* revisions 1 and 2 and POST /api/execute/run (src/execute-routes.js).    *)
(***************************************************************************)
EXTENDS Integers, Sequences, FiniteSets, TLC

\* ---------------------------------------------------------------- bounds
MaxTime == 6000
TickMs == 2000
MaxChats == 2
RandLevels == 2
ChatPreload == 99
MaxChatAppends == 2
MaxRequests == 2
ExecTickMs == 5000
MaxExecTime == 20000
HistoryPreload == 19
MaxHistoryAppends == 3
MaxJoins == 2
MaxLogins == 2
LoginTickMs == 3600000
MaxLoginTime == 10800000
MaxContentLen == 1
MaxLine == 0
MaxColumn == 1
MaxInsertLen == 2
MaxOps == 2
OpsPreload == 99

\* ------------------------------------------------------ program constants
ChatCapacity == 100
TypingClearMs == 2000
TypingExpiryMs == 3000
ExecTimeoutMs == 15000
HistoryCapacity == 20
DefaultMaxParticipants == 5
MinMaxParticipants == 2
SessionCodeLength == 6
MaxAttempts == 5
LockTimeMs == 7200000
OperationsCapacity == 100

\* ------------------------------------------------------------ value sets
Conns == {"c1", "c2"}
Users == {"u1", "u2"}
ValidIds == {"r1", "r2"}
RoomIds == ValidIds
Undefined == "undefined"
Null == "null"
Codes == {"a", "b"}
Positions == {"p1"}

Versions == {1, 2, 3}

\* languages of a request: "python" is in languageMapping, "cobol" is not
Languages == {"python", "cobol"}

\* what the Piston API answers to POST /execute: 2xx with stdout only, 2xx
\* with run.stderr, 2xx with compile.stderr only, 2xx with no stderr and
\* run.code 1, 429, 5xx
Answers == {"ok", "stderr", "compile", "exit1", "429", "500"}

\* the caller of POST /api/execute/run
HttpCaller == "http"

\* req.userId of the caller, set by authMiddleware
CallerId == "u1"

\* the users that call POST /api/sessions/join
Joiners == {"u1", "u2", "u3"}

\* the sessionCode of the stored session r1, and what requests carry: the
\* code in upper and in lower case, a code of no session, a short one, none
StoredCode == "ABC123"
SessionCodes == {"ABC123", "abc123", "XYZ789", "ABC12", Undefined}

VARIABLES
  ver,              \* revision of server.js that is running
  sock,             \* sock[c]: "open" | "closed"
  userData,         \* socket.userData (Undefined until authenticate)
  currentSession,   \* socket.currentSession (Undefined / Null / room id)
  userSockets,      \* Map userId -> socketId
  ioRooms,          \* socket.io adapter: room id -> set of sockets
  activeSessions,   \* Map sessionId -> Map socketId -> participant
  sessionCode,      \* Map sessionId -> code
  sessionCursors,   \* Map sessionId -> Map socketId -> cursor
  sessionChats,     \* Map sessionId -> array of chat messages (ver 3)
  now,              \* Date.now()
  timers,           \* pending setTimeout callbacks of code-change (ver 1)
  nchat,            \* number of chat events handled so far
  sent,             \* messages emitted by the last handler
  last,             \* the event the last handler processed
  typingUsers,      \* CodeState document: typingUsers array
  docTimers,        \* pending setTimeout callbacks of setTyping
  proc,             \* the node process: "running" | "exited"
  reqs,             \* execution requests that reached axios.post, in order
  lookups,          \* POST /run requests awaiting User / Session.findById
  sessionDoc,       \* the Session document of room r1 in the database
  userDoc,          \* the User document of the caller in the database
  joins,            \* POST /api/sessions/join requests, in order of arrival
  logins,           \* POST /api/auth/login requests awaiting comparePassword
  codeState         \* CodeState document: content, version, operations

sockVars == <<sock, userData, currentSession, userSockets, ioRooms>>
roomVars == <<activeSessions, sessionCode, sessionCursors, sessionChats>>
timeVars == <<now, timers>>
docVars == <<typingUsers, docTimers>>
dbVars == <<sessionDoc, userDoc>>
routeVars == <<joins, logins, codeState>>
execVars == <<proc, reqs, lookups, dbVars, routeVars>>
vars == <<ver, sockVars, roomVars, timeVars, nchat, sent, last, docVars, execVars>>

\* the last instant the clock reaches: a callback due later never runs
LastTick == MaxTime - (MaxTime % TickMs)

\* ------------------------------------------------------------ JS helpers
Falsy(x) == x = Undefined \/ x = Null

Has(m, k) == k \in DOMAIN m

MapSetAppends(m, k, v) ==
  IF k \in DOMAIN m
    THEN [x \in (DOMAIN m) \cup {k \o "'"} |-> IF x = k \o "'" THEN v ELSE m[x]]
    ELSE [x \in (DOMAIN m) \cup {k} |-> IF x = k THEN v ELSE m[x]]

MapSet(m, k, v) == [x \in (DOMAIN m) \cup {k} |-> IF x = k THEN v ELSE m[x]]

MapDelete(m, k) == [x \in (DOMAIN m) \ {k} |-> m[x]]

EmptyMap == [x \in {} |-> Undefined]

ObjectIdIsValid(id) == id \in ValidIds

WelcomeCode == IF ver = 3 THEN "welcome3" ELSE "welcome"

NoUser == [id |-> Undefined, username |-> Undefined]

NoMsg ==
  [id |-> -1, message |-> "", userId |-> Undefined, username |-> Undefined,
   timestamp |-> -1, socketId |-> Undefined]

NoEvent ==
  [ev |-> "none", socket |-> Undefined, sessionId |-> Undefined,
   code |-> Undefined, accepted |-> FALSE]

Event(e, c, s, x, ok) ==
  [ev |-> e, socket |-> c, sessionId |-> s, code |-> x, accepted |-> ok]

\* one message on the wire: event name, receiving socket and payload fields
Msg(e, to, from, s, code, n, ps, m) ==
  [ev |-> e, to |-> to, from |-> from, room |-> s, code |-> code,
   n |-> n, ps |-> ps, msg |-> m]

\* socket.emit(ev, ...): to the socket itself, if still connected
SocketEmit(c, e, s, code, n, ps, m) ==
  IF sock[c] = "open" THEN {Msg(e, c, c, s, code, n, ps, m)} ELSE {}

\* socket.to(room).emit(ev, ...): every socket in the room but the sender
SocketToEmit(rooms, c, e, s, code, n, ps, m) ==
  {Msg(e, t, c, s, code, n, ps, m) : t \in (rooms[s] \ {c})}

\* io.to(room).emit(ev, ...): every socket in the room
IoToEmit(rooms, c, e, s, code, n, ps, m) ==
  {Msg(e, t, c, s, code, n, ps, m) : t \in rooms[s]}

\* ------------------------------------------------- documents (mongoose)
\* a Session document with the defaults of the schema; v is the version
\* key __v that mongoose keeps for the arrays of the document
NewSession(creator) ==
  [creator |-> creator, activeParticipants |-> << >>,
   maxParticipants |-> DefaultMaxParticipants, executionEnabled |-> TRUE,
   totalParticipants |-> 0, executionHistory |-> << >>, totalExecutions |-> 0,
   v |-> 0]

\* a User document with the defaults of the schema; lockUntil 0 stands for
\* the field being unset (the code tests it for truthiness only)
NewUser ==
  [totalCodeExecutions |-> 0, loginAttempts |-> 0, lockUntil |-> 0]

\* a CodeState document with the defaults of the schema; content is the
\* string as the sequence of its characters
NewCodeState == [content |-> << >>, version |-> 1, operations |-> << >>]

\* no request to the REST routes is under way
InitRoutes ==
  /\ joins = << >>
  /\ logins = << >>
  /\ codeState = NewCodeState

InitDb ==
  /\ sessionDoc = NewSession(CallerId)
  /\ userDoc = NewUser
  /\ InitRoutes

\* ------------------------------------------------------------------ Init
\* the server after start-up, before any connection has sent an event
InitServer ==
  /\ ver \in Versions
  /\ sock = [c \in Conns |-> "open"]
  /\ userData = [c \in Conns |-> NoUser]
  /\ currentSession = [c \in Conns |-> Undefined]
  /\ userSockets = EmptyMap
  /\ ioRooms = [s \in RoomIds |-> {}]
  /\ activeSessions = EmptyMap
  /\ sessionCode = EmptyMap
  /\ sessionCursors = EmptyMap
  /\ sessionChats = EmptyMap
  /\ now = 0
  /\ timers = {}
  /\ nchat = 0
  /\ sent = {}
  /\ last = NoEvent
  /\ typingUsers = << >>
  /\ docTimers = {}
  /\ proc = "running"
  /\ reqs = << >>
  /\ lookups = << >>

\* a fresh server over a database with one fresh session of the caller
Init == InitServer /\ InitDb

\* ----------------------------------------------- socket.on('authenticate')
\* id, username: the fields of the payload (Undefined when missing)
Authenticate(c, id, username) ==
  /\ sock[c] = "open"
  /\ last' = Event("authenticate", c, Undefined, Undefined,
                   ~(Falsy(id) \/ Falsy(username)))
  /\ IF Falsy(id) \/ Falsy(username)
       THEN /\ sent' = SocketEmit(c, "auth-error", Undefined, Undefined, 0, {}, NoMsg)
            /\ UNCHANGED <<userSockets, userData>>
       ELSE /\ userSockets' = MapSet(userSockets, id, c)
            /\ userData' = [userData EXCEPT ![c] = [id |-> id, username |-> username]]
            /\ sent' = SocketEmit(c, "auth-success", Undefined, Undefined, 0, {}, NoMsg)
  /\ UNCHANGED <<ver, execVars, sock, currentSession, ioRooms, roomVars, timeVars,
                 nchat, docVars>>

\* ----------------------------------------------- socket.on('join-session')
Participant(user) == [user |-> user, isTyping |-> FALSE]

\* the four emits that follow the registration of the participant
JoinEmits(c, sessionId, rooms, users, code, chats) ==
  LET n == Cardinality(DOMAIN users) IN
  CASE ver = 1 ->
         SocketEmit(c, "code-sync", sessionId, code, 0, {}, NoMsg)
         \cup SocketEmit(c, "session-participants", sessionId, Undefined, 0, DOMAIN users, NoMsg)
         \cup SocketToEmit(rooms, c, "user-joined", sessionId, Undefined, 0, {}, NoMsg)
         \cup IoToEmit(rooms, c, "participant-count-update", sessionId, Undefined, n, {}, NoMsg)
    [] ver = 2 ->
         SocketEmit(c, "session-joined", sessionId, code, 0, DOMAIN users, NoMsg)
         \cup SocketToEmit(rooms, c, "user-joined", sessionId, Undefined, 0, {}, NoMsg)
    [] ver = 3 ->
         SocketEmit(c, "code-sync", sessionId, code, 0, {}, NoMsg)
         \cup SocketEmit(c, "chat-history", sessionId, Undefined, Len(chats), {},
                          IF chats = << >> THEN NoMsg ELSE chats[Len(chats)])
         \cup SocketEmit(c, "session-participants", sessionId, Undefined, 0, DOMAIN users, NoMsg)
         \cup SocketToEmit(rooms, c, "user-joined", sessionId, Undefined, 0, {}, NoMsg)
         \cup IoToEmit(rooms, c, "participant-count-update", sessionId, Undefined, n, {}, NoMsg)

JoinSession(c, sessionId, user) ==
  /\ sock[c] = "open"
  /\ IF Falsy(sessionId) \/ Falsy(user)
       THEN /\ sent' = SocketEmit(c, "error", Undefined, Undefined, 0, {}, NoMsg)
            /\ last' = Event("join-session", c, sessionId, Undefined, FALSE)
            /\ UNCHANGED <<currentSession, ioRooms, roomVars, timers>>
     ELSE IF ver \in {1, 2} /\ ~ObjectIdIsValid(sessionId)
       THEN /\ sent' = SocketEmit(c, "error", Undefined, Undefined, 0, {}, NoMsg)
            /\ last' = Event("join-session", c, sessionId, Undefined, FALSE)
            /\ UNCHANGED <<currentSession, ioRooms, roomVars, timers>>
     ELSE
       LET fresh == ~Has(activeSessions, sessionId)
           rooms == [ioRooms EXCEPT ![sessionId] = @ \cup {c}]
           users0 == IF fresh THEN EmptyMap ELSE activeSessions[sessionId]
           users == MapSet(users0, c, Participant(user))
           code == IF fresh THEN WelcomeCode ELSE sessionCode[sessionId]
           chats == IF ver = 3
                      THEN IF fresh THEN << >> ELSE sessionChats[sessionId]
                      ELSE << >>
       IN /\ ioRooms' = rooms
          /\ currentSession' = [currentSession EXCEPT ![c] = sessionId]
          /\ activeSessions' = MapSet(activeSessions, sessionId, users)
          /\ sessionCode' = IF fresh THEN MapSet(sessionCode, sessionId, WelcomeCode)
                                     ELSE sessionCode
          /\ sessionCursors' = IF fresh THEN MapSet(sessionCursors, sessionId, EmptyMap)
                                        ELSE sessionCursors
          /\ sessionChats' = IF fresh /\ ver = 3
                               THEN MapSet(sessionChats, sessionId, << >>)
                               ELSE sessionChats
          /\ sent' = JoinEmits(c, sessionId, rooms, users, code, chats)
          /\ last' = Event("join-session", c, sessionId, Undefined, TRUE)
          /\ UNCHANGED timers
  /\ UNCHANGED <<ver, execVars, sock, userData, userSockets, now, nchat, docVars>>

\* ------------------------------------------------ socket.on('code-change')
\* the setTimeout callback of ver 1; it closes over the participant Map of
\* the room, so it finds nothing to do once that Map has been dropped from
\* activeSessions: handleUserLeaveSession takes such callbacks out of timers
Timer(c, sessionId, at) ==
  [socket |-> c, sessionId |-> sessionId, at |-> at]

CodeChangeGuard(c, sessionId, code) ==
  CASE ver = 1 -> ~(Falsy(sessionId) \/ Falsy(currentSession[c]))
    [] ver = 2 -> ~(Falsy(sessionId) \/ code = Undefined)
    [] ver = 3 -> ~(Falsy(sessionId) \/ Falsy(currentSession[c]))

CodeChange(c, sessionId, code) ==
  /\ sock[c] = "open"
  /\ last' = Event("code-change", c, sessionId, code,
                   CodeChangeGuard(c, sessionId, code))
  /\ IF ~CodeChangeGuard(c, sessionId, code)
       THEN /\ sent' = {}
            /\ UNCHANGED <<sessionCode, activeSessions, timers>>
       ELSE
         LET typing == ver = 1 /\ Has(activeSessions, sessionId)
                         /\ Has(activeSessions[sessionId], c)
         IN /\ typing => now + TypingClearMs <= LastTick
            /\ sessionCode' = MapSet(sessionCode, sessionId, code)
            /\ activeSessions' =
                 IF typing
                   THEN [activeSessions EXCEPT ![sessionId][c].isTyping = TRUE]
                   ELSE activeSessions
            /\ timers' = IF typing
                           THEN timers \cup {Timer(c, sessionId, now + TypingClearMs)}
                           ELSE timers
            /\ sent' = SocketToEmit(ioRooms, c, "code-change", sessionId, code, 0, {}, NoMsg)
                 \cup (IF typing
                         THEN SocketToEmit(ioRooms, c, "typing-status-update",
                                           sessionId, Undefined, 1, {}, NoMsg)
                         ELSE {})
  /\ UNCHANGED <<ver, execVars, sockVars, sessionCursors, sessionChats, now, nchat, docVars>>

\* variant: the callback looks the socket up under the wrong key and so
\* never finds the participant
TypingTimeoutWrongKey(t) ==
  /\ t \in timers
  /\ t.at <= now
  /\ timers' = timers \ {t}
  /\ last' = Event("typing-timeout", t.socket, t.sessionId, Undefined, TRUE)
  /\ sent' = {}
  /\ UNCHANGED <<ver, execVars, sockVars, roomVars, now, nchat, docVars>>

\* the callback scheduled by code-change (ver 1), 2000 ms later
TypingTimeout(t) ==
  /\ t \in timers
  /\ t.at <= now
  /\ timers' = timers \ {t}
  /\ last' = Event("typing-timeout", t.socket, t.sessionId, Undefined, TRUE)
  /\ IF Has(activeSessions, t.sessionId)
          /\ Has(activeSessions[t.sessionId], t.socket)
       THEN /\ activeSessions' =
                 [activeSessions EXCEPT ![t.sessionId][t.socket].isTyping = FALSE]
            /\ sent' = SocketToEmit(ioRooms, t.socket, "typing-status-update",
                                    t.sessionId, Undefined, 0, {}, NoMsg)
       ELSE /\ sent' = {}
            /\ UNCHANGED activeSessions
  /\ UNCHANGED <<ver, execVars, sockVars, sessionCode, sessionCursors, sessionChats,
                 now, nchat, docVars>>

\* -------------------------------------------- socket.on('cursor-position')
Cursor(c, position) ==
  [position |-> position,
   user |-> IF ver = 1 THEN NoUser ELSE userData[c]]

CursorGuard(c, sessionId, position) ==
  CASE ver = 1 -> ~(Falsy(sessionId) \/ Falsy(position))
    [] ver = 2 -> ~(Falsy(sessionId) \/ Falsy(position))
    [] ver = 3 -> ~(Falsy(sessionId) \/ Falsy(currentSession[c]))

CursorPosition(c, sessionId, position) ==
  /\ sock[c] = "open"
  /\ last' = Event("cursor-position", c, sessionId, position,
                   CursorGuard(c, sessionId, position))
  /\ IF ~CursorGuard(c, sessionId, position)
       THEN /\ sent' = {}
            /\ UNCHANGED sessionCursors
     ELSE IF Has(sessionCursors, sessionId)
       THEN /\ sessionCursors' =
                 [sessionCursors EXCEPT ![sessionId] = MapSet(@, c, Cursor(c, position))]
            /\ sent' = SocketToEmit(ioRooms, c,
                                    IF ver = 3 THEN "cursor-position" ELSE "cursor-update",
                                    sessionId, position, 0, {}, NoMsg)
       ELSE /\ UNCHANGED sessionCursors
            /\ sent' = IF ver = 3
                         THEN SocketToEmit(ioRooms, c, "cursor-position",
                                           sessionId, position, 0, {}, NoMsg)
                         ELSE {}
  /\ UNCHANGED <<ver, execVars, sockVars, activeSessions, sessionCode, sessionChats,
                 timeVars, nchat, docVars>>

\* ----------------------------------------------- socket.on('chat-message')
Trim(message) == IF message = " " THEN "" ELSE message

\* Date.now() + Math.random(), in units of 1/RandLevels
ChatId(rnd) == now * RandLevels + rnd

ChatMessageRecord(c, message, rnd) ==
  [id |-> ChatId(rnd), message |-> Trim(message),
   userId |-> IF ver = 3 THEN userData[c].id ELSE Undefined,
   username |-> userData[c].username,
   timestamp |-> now, socketId |-> c]

\* variant: keeps the first 100 entries instead of the last 100
ChatPushKeepsHead(chatHistory, chatMessage) ==
  LET pushed == Append(chatHistory, chatMessage) IN
  IF Len(pushed) > ChatCapacity THEN SubSeq(pushed, 1, ChatCapacity) ELSE pushed

\* chatHistory.push(chatMessage) and the splice that keeps the last 100
ChatPush(chatHistory, chatMessage) ==
  LET pushed == Append(chatHistory, chatMessage) IN
  IF Len(pushed) > ChatCapacity
    THEN SubSeq(pushed, Len(pushed) - ChatCapacity + 1, Len(pushed))
    ELSE pushed

\* variant: socket.to(sessionId) in place of io.to(sessionId)
ChatFanOutToOthers(rooms, c, sessionId, chatMessage) ==
  SocketToEmit(rooms, c, "chat-message", sessionId, Undefined, 0, {}, chatMessage)

\* io.to(sessionId).emit('chat-message', chatMessage)
ChatFanOut(rooms, c, sessionId, chatMessage) ==
  IoToEmit(rooms, c, "chat-message", sessionId, Undefined, 0, {}, chatMessage)

ChatGuard(c, sessionId, message) ==
  CASE ver = 1 -> ~(Falsy(sessionId) \/ Falsy(message) \/ userData[c] = NoUser)
    [] ver = 2 -> ~(Falsy(sessionId) \/ Falsy(message) \/ userData[c] = NoUser)
    [] ver = 3 -> ~(Falsy(sessionId) \/ Falsy(message) \/ Falsy(currentSession[c]))

ChatMessage(c, sessionId, message, rnd, cap) ==
  /\ sock[c] = "open"
  /\ nchat < cap
  /\ nchat' = nchat + 1
  /\ last' = Event("chat-message", c, sessionId, message,
                   ChatGuard(c, sessionId, message))
  /\ IF ~ChatGuard(c, sessionId, message)
       THEN /\ sent' = {}
            /\ UNCHANGED sessionChats
       ELSE
         LET chatMessage == ChatMessageRecord(c, message, rnd) IN
         /\ sessionChats' =
              IF ver = 3 /\ Has(sessionChats, sessionId)
                THEN [sessionChats EXCEPT ![sessionId] = ChatPush(@, chatMessage)]
                ELSE sessionChats
         /\ sent' = ChatFanOut(ioRooms, c, sessionId, chatMessage)
  /\ UNCHANGED <<ver, execVars, sockVars, activeSessions, sessionCode, sessionCursors,
                 timeVars, docVars>>

\* ------------------------- socket.on('typing-start') / ('typing-stop'), ver 3
TypingEvent(c, sessionId, isTyping) ==
  /\ ver = 3
  /\ sock[c] = "open"
  /\ last' = Event(IF isTyping THEN "typing-start" ELSE "typing-stop", c,
                   sessionId, Undefined,
                   ~Falsy(sessionId) /\ ~Falsy(currentSession[c]))
  /\ sent' = IF ~Falsy(sessionId) /\ ~Falsy(currentSession[c])
               THEN SocketToEmit(ioRooms, c, "user-typing", sessionId, Undefined,
                                 IF isTyping THEN 1 ELSE 0, {}, NoMsg)
               ELSE {}
  /\ UNCHANGED <<ver, execVars, sockVars, roomVars, timeVars, nchat, docVars>>

\* ------------------------------------------------ handleUserLeaveSession
\* rooms: the adapter rooms at the time of the call (on disconnect the
\* socket has already left all of them)
HandleUserLeaveSession(c, sessionId, rooms) ==
  IF Has(activeSessions, sessionId) /\ Has(activeSessions[sessionId], c)
    THEN
      LET sessionUsers == MapDelete(activeSessions[sessionId], c)
          empty == DOMAIN sessionUsers = {}
      IN /\ sent' = SocketToEmit(rooms, c, "user-left", sessionId, Undefined, 0, {}, NoMsg)
              \cup IoToEmit(rooms, c, "participant-count-update", sessionId,
                            Undefined, Cardinality(DOMAIN sessionUsers), {}, NoMsg)
         /\ ioRooms' = [rooms EXCEPT ![sessionId] = @ \ {c}]
         /\ activeSessions' =
              IF empty THEN MapDelete(activeSessions, sessionId)
                       ELSE [activeSessions EXCEPT ![sessionId] = sessionUsers]
         /\ sessionCode' = IF empty THEN MapDelete(sessionCode, sessionId)
                                    ELSE sessionCode
         /\ sessionCursors' =
              IF empty THEN MapDelete(sessionCursors, sessionId)
              ELSE IF Has(sessionCursors, sessionId)
                THEN [sessionCursors EXCEPT ![sessionId] = MapDelete(@, c)]
                ELSE sessionCursors
         /\ timers' =
              IF empty THEN {t \in timers : t.sessionId # sessionId}
                       ELSE timers
    ELSE /\ sent' = {}
         /\ ioRooms' = rooms
         /\ UNCHANGED <<activeSessions, sessionCode, sessionCursors, timers>>

\* ---------------------------------------------- socket.on('leave-session')
LeaveSession(c, sessionId) ==
  /\ sock[c] = "open"
  /\ IF ver \in {1, 2}
       THEN /\ HandleUserLeaveSession(c, sessionId, ioRooms)
            /\ last' = Event("leave-session", c, sessionId, Undefined,
                             Has(activeSessions, sessionId)
                               /\ Has(activeSessions[sessionId], c))
            /\ UNCHANGED currentSession
     ELSE IF ~Falsy(sessionId) /\ currentSession[c] = sessionId
       THEN /\ ioRooms' = [ioRooms EXCEPT ![sessionId] = @ \ {c}]
            /\ currentSession' = [currentSession EXCEPT ![c] = Null]
            /\ activeSessions' =
                 IF Has(activeSessions, sessionId)
                   THEN [activeSessions EXCEPT ![sessionId] = MapDelete(@, c)]
                   ELSE activeSessions
            /\ sent' = SocketToEmit(ioRooms', c, "user-left", sessionId, Undefined,
                                    0, {}, NoMsg)
            /\ last' = Event("leave-session", c, sessionId, Undefined, TRUE)
            /\ UNCHANGED <<sessionCode, sessionCursors, timers>>
       ELSE /\ sent' = {}
            /\ last' = Event("leave-session", c, sessionId, Undefined, FALSE)
            /\ UNCHANGED <<currentSession, ioRooms, activeSessions, sessionCode,
                           sessionCursors, timers>>
  /\ UNCHANGED <<ver, execVars, sock, userData, userSockets, sessionChats, now, nchat, docVars>>

\* ------------------------------------------------- socket.on('disconnect')
\* socket.io takes the socket out of every room before the handler runs
Disconnect(c) ==
  /\ sock[c] = "open"
  /\ sock' = [sock EXCEPT ![c] = "closed"]
  /\ last' = Event("disconnect", c, currentSession[c], Undefined, TRUE)
  /\ userSockets' = IF userData[c] # NoUser
                      THEN MapDelete(userSockets, userData[c].id)
                      ELSE userSockets
  /\ LET rooms == [s \in DOMAIN ioRooms |-> ioRooms[s] \ {c}]
         sessionId == currentSession[c]
     IN IF Falsy(sessionId)
          THEN /\ ioRooms' = rooms
               /\ sent' = {}
               /\ UNCHANGED <<activeSessions, sessionCode, sessionCursors, timers>>
        ELSE IF ver \in {1, 2}
          THEN HandleUserLeaveSession(c, sessionId, rooms)
          ELSE /\ ioRooms' = rooms
               /\ activeSessions' =
                    IF Has(activeSessions, sessionId)
                      THEN [activeSessions EXCEPT ![sessionId] = MapDelete(@, c)]
                      ELSE activeSessions
               /\ sessionCursors' =
                    IF Has(sessionCursors, sessionId)
                      THEN [sessionCursors EXCEPT ![sessionId] = MapDelete(@, c)]
                      ELSE sessionCursors
               /\ sent' = SocketToEmit(rooms, c, "user-left", sessionId, Undefined,
                                       0, {}, NoMsg)
                    \cup (IF Has(activeSessions, sessionId)
                            THEN IoToEmit(rooms, c, "participant-count-update",
                                          sessionId, Undefined,
                                          Cardinality(DOMAIN activeSessions'[sessionId]),
                                          {}, NoMsg)
                            ELSE {})
               /\ UNCHANGED <<sessionCode, timers>>
  /\ UNCHANGED <<ver, execVars, userData, currentSession, sessionChats, now, nchat, docVars>>

\* ------------------------------------------------------------ wall clock
Tick ==
  /\ now + TickMs <= MaxTime
  /\ \A t \in timers : t.at > now
  /\ \A t \in docTimers : t.at > now
  /\ now' = now + TickMs
  /\ sent' = {}
  /\ last' = NoEvent
  /\ UNCHANGED <<ver, execVars, sockVars, roomVars, timers, nchat, docVars>>

\* ------------------------------------- CodeState.setTyping / clearTyping
\* this.typingUsers.filter(user => user.userId !== userId)
WithoutUser(users, userId) == SelectSeq(users, LAMBDA u : u.userId # userId)

SetTyping(userId) ==
  /\ now + TypingExpiryMs <= LastTick
  /\ typingUsers' = Append(WithoutUser(typingUsers, userId),
                           [userId |-> userId, startedAt |-> now])
  /\ docTimers' = docTimers \cup {[userId |-> userId, at |-> now + TypingExpiryMs]}
  /\ sent' = {}
  /\ last' = Event("setTyping", Undefined, Undefined, userId, TRUE)
  /\ UNCHANGED <<ver, execVars, sockVars, roomVars, timeVars, nchat>>

\* the callback scheduled by setTyping, 3000 ms later
SetTypingTimeout(t) ==
  /\ t \in docTimers
  /\ t.at <= now
  /\ docTimers' = docTimers \ {t}
  /\ typingUsers' = SelectSeq(typingUsers,
                              LAMBDA u : u.userId # t.userId
                                           \/ now - u.startedAt < TypingExpiryMs)
  /\ sent' = {}
  /\ last' = Event("setTyping-timeout", Undefined, Undefined, t.userId, TRUE)
  /\ UNCHANGED <<ver, execVars, sockVars, roomVars, timeVars, nchat>>

ClearTyping(userId) ==
  /\ typingUsers' = WithoutUser(typingUsers, userId)
  /\ sent' = {}
  /\ last' = Event("clearTyping", Undefined, Undefined, userId, TRUE)
  /\ UNCHANGED <<ver, execVars, sockVars, roomVars, timeVars, nchat, docTimers>>

\* ---------------------------------------------------- code execution
\* the last instant the clock of the execution runs reaches
LastExecTick == MaxExecTime - (MaxExecTime % ExecTickMs)

\* one request that reached axios.post: who asked, its place in the order
\* of submission, when the call started, how many calls it has made, how it
\* ended, the success flag of the result that was delivered, and the
\* documents that the route loaded before the call (fresh ones stand in
\* where nothing was loaded)
Request(via, c, sessionId, start, seq) ==
  [via |-> via, socket |-> c, sessionId |-> sessionId, start |-> start,
   seq |-> seq, attempts |-> 1, state |-> "inflight", status |-> 0,
   success |-> Undefined, session |-> NewSession(Undefined), user |-> NewUser]

InFlight == {i \in 1 .. Len(reqs) : reqs[i].state = "inflight"}

\* the place of the next request in the order of submission, among the
\* requests that have not been turned down
NextSeq == Len(reqs) + Len(lookups) + 1

\* a request that is turned down gives up its place: the later ones move up
MoveUp(q, seq) ==
  [i \in DOMAIN q |-> IF q[i].seq > seq THEN [q[i] EXCEPT !.seq = @ - 1] ELSE q[i]]

\* res.status(n).json(...)
HttpResponse(sessionId, status) ==
  {Msg("http-response", HttpCaller, HttpCaller, sessionId, Undefined, status, {}, NoMsg)}

\* ----------------------------------------------- socket.on('execute-code')
\* revision 3 registers no listener for the event
ExecuteCodeGuard(sessionId, code, language) ==
  CASE ver = 1 -> ~Falsy(sessionId)
    [] ver = 2 -> ~(Falsy(sessionId) \/ Falsy(code) \/ Falsy(language))
    [] ver = 3 -> FALSE

\* the listener up to its await of axios.post
ExecuteCode(c, sessionId, code, language) ==
  /\ proc = "running"
  /\ sock[c] = "open"
  /\ last' = Event("execute-code", c, sessionId, code,
                   ExecuteCodeGuard(sessionId, code, language))
  /\ IF ~ExecuteCodeGuard(sessionId, code, language)
       THEN /\ sent' = {}
            /\ UNCHANGED reqs
       ELSE /\ Len(reqs) + Len(lookups) < MaxRequests
            /\ sent' = IF ver = 1
                         THEN IoToEmit(ioRooms, c, "execution-started", sessionId,
                                       Undefined, 0, {}, NoMsg)
                         ELSE {}
            /\ reqs' = Append(reqs, Request("socket", c, sessionId, now, NextSeq))
  /\ UNCHANGED <<ver, proc, lookups, sockVars, roomVars, timeVars, nchat, docVars, dbVars, routeVars>>

\* ------------------------------------------------- router.post('/run')
\* access: what the lookups of the user and of the session will find
\* the handler up to its await of User.findById
RunRoute(code, language, sessionId, access) ==
  /\ proc = "running"
  /\ last' = Event("run", HttpCaller, sessionId, code,
                   ~(Falsy(code) \/ Falsy(language)) /\ language = "python")
  /\ IF Falsy(code) \/ Falsy(language)
       THEN sent' = HttpResponse(sessionId, 400) /\ UNCHANGED lookups
     ELSE IF language # "python"
       THEN sent' = HttpResponse(sessionId, 400) /\ UNCHANGED lookups
     ELSE /\ Len(reqs) + Len(lookups) < MaxRequests
          /\ now + ExecTimeoutMs <= LastExecTick
          /\ sent' = {}
          /\ lookups' = Append(lookups, [sessionId |-> sessionId, access |-> access,
                                         seq |-> NextSeq])
  /\ UNCHANGED <<ver, proc, reqs, sockVars, roomVars, timeVars, nchat, docVars, dbVars, routeVars>>

\* variant: whoever is listed among the participants has access
HasAccessListed(session, userId) ==
  \/ session.creator = userId
  \/ \E n \in 1 .. Len(session.activeParticipants) :
       session.activeParticipants[n].user = userId

\* hasAccess of the route: the creator, or a participant marked active
HasAccess(session, userId) ==
  \/ session.creator = userId
  \/ \E n \in 1 .. Len(session.activeParticipants) :
       /\ session.activeParticipants[n].user = userId
       /\ session.activeParticipants[n].isActive

\* what the lookups of a request with this sessionId find: the database
\* holds the Session document of r1 and none for any other id
AccessOf(sessionId) ==
  IF sessionId # "r1" THEN "nosession"
  ELSE IF ~HasAccess(sessionDoc, CallerId) THEN "denied"
  ELSE IF ~sessionDoc.executionEnabled THEN "disabled"
  ELSE "ok"

\* the sequence q without its k-th element
Without(q, k) == SubSeq(q, 1, k - 1) \o SubSeq(q, k + 1, Len(q))

\* the handler from the answers of User.findById and Session.findById up
\* to its await of axios.post
RunLookups(k) ==
  /\ proc = "running"
  /\ k \in 1 .. Len(lookups)
  /\ LET sessionId == lookups[k].sessionId
         access == lookups[k].access
         status == IF access = "nouser" THEN 404
                   ELSE IF Falsy(sessionId) THEN 0
                   ELSE IF access = "nosession" THEN 404
                   ELSE IF access \in {"denied", "disabled"} THEN 403
                   ELSE 0
     IN /\ last' = Event("run-lookups", HttpCaller, sessionId, Undefined, status = 0)
        /\ IF status # 0
             THEN /\ sent' = HttpResponse(sessionId, status)
                  /\ lookups' = MoveUp(Without(lookups, k), lookups[k].seq)
                  /\ reqs' = MoveUp(reqs, lookups[k].seq)
             ELSE /\ sent' = {}
                  /\ lookups' = Without(lookups, k)
                  /\ reqs' = Append(reqs,
                                    [Request("http", HttpCaller, sessionId, now,
                                             lookups[k].seq)
                                       EXCEPT !.session = IF Falsy(sessionId)
                                                            THEN NewSession(Undefined)
                                                            ELSE sessionDoc,
                                              !.user = userDoc])
  /\ UNCHANGED <<ver, proc, sockVars, roomVars, timeVars, nchat, docVars, dbVars, routeVars>>

\* ------------------------------------- the await of axios.post resumes
\* result.run.stderr || result.compile?.stderr || ''
ErrorOf(answer) ==
  CASE answer = "stderr" -> "E"
    [] answer = "compile" -> "C"
    [] OTHER -> ""

\* formatExecutionOutput(output, error, language).hasError
HasError(error) == error # ""

\* the success flag of the result: executionResult.success of the route;
\* the result object of the execute-code listener has no such field
SuccessFlag(via, answer) ==
  IF via = "http"
    THEN IF answer \in {"429", "500"} \/ HasError(ErrorOf(answer))
           THEN "false" ELSE "true"
    ELSE Undefined

\* variant: every answer counts as a response that axios resolves with
ResolvedAlways(answer) == TRUE

\* axios resolves the call for a 2xx response and rejects for any other
Resolved(answer) == answer \in {"ok", "stderr", "compile", "exit1"}

\* variant: past the capacity the newest entry is the one dropped
AddExecutionKeepsOldest(doc, executionData) ==
  LET unshifted == <<[output |-> executionData.output,
                      error |-> executionData.error,
                      executedBy |-> executionData.executedBy,
                      executedAt |-> now]>> \o doc.executionHistory
  IN [doc EXCEPT
        !.executionHistory = IF Len(unshifted) > HistoryCapacity
                               THEN SubSeq(unshifted, 2, Len(unshifted))
                               ELSE unshifted,
        !.totalExecutions = @ + 1]

\* sessionSchema.methods.addExecution, up to this.save()
AddExecution(doc, executionData) ==
  LET unshifted == <<[output |-> executionData.output,
                      error |-> executionData.error,
                      executedBy |-> executionData.executedBy,
                      executedAt |-> now]>> \o doc.executionHistory
  IN [doc EXCEPT
        !.executionHistory = IF Len(unshifted) > HistoryCapacity
                               THEN SubSeq(unshifted, 1, HistoryCapacity)
                               ELSE unshifted,
        !.totalExecutions = @ + 1]

\* the argument of session.addExecution in the route
ExecutionData(answer) ==
  [output |-> answer, error |-> ErrorOf(answer), executedBy |-> CallerId]

\* whether session.save() of request i goes through: the save sets the
\* whole executionHistory array, and when the stored document has moved to
\* another version since it was loaded mongoose either writes over it or
\* rejects the save with a VersionError
SaveOutcomes(i, answer) ==
  IF /\ reqs[i].via = "http"
     /\ Resolved(answer)
     /\ ~Falsy(reqs[i].sessionId)
     /\ reqs[i].session.v # sessionDoc.v
    THEN BOOLEAN
    ELSE {TRUE}

\* what the route writes after the call: session.addExecution (with a
\* session) and user.incrementExecutionCount, each on the document it
\* loaded before the call; a rejected call or save skips what follows
RouteRecords(i, answer, saved) ==
  IF reqs[i].via = "http" /\ Resolved(answer)
    THEN /\ sessionDoc' =
              IF ~Falsy(reqs[i].sessionId) /\ saved
                THEN LET doc == AddExecution(reqs[i].session, ExecutionData(answer))
                     IN [sessionDoc EXCEPT
                           !.executionHistory = doc.executionHistory,
                           !.totalExecutions = doc.totalExecutions,
                           !.v = @ + 1]
                ELSE sessionDoc
         /\ userDoc' =
              IF saved
                THEN [userDoc EXCEPT
                        !.totalCodeExecutions = reqs[i].user.totalCodeExecutions + 1]
                ELSE userDoc
    ELSE UNCHANGED dbVars

\* variant: the listener leaves the request alone once its socket has
\* disconnected
PistonAnswersIfConnected(i, answer) ==
  /\ proc = "running"
  /\ i \in InFlight
  /\ last' = Event("piston-answer", reqs[i].socket, reqs[i].sessionId, answer, TRUE)
  /\ LET ok == answer \in {"ok", "stderr", "compile", "exit1"}
         gone == reqs[i].via = "socket" /\ sock[reqs[i].socket] = "closed"
     IN
     /\ reqs' = IF gone THEN [reqs EXCEPT ![i].state = "Cancelled"]
                        ELSE [reqs EXCEPT ![i].state = IF ok THEN "Succeeded" ELSE "Failed",
                                          ![i].status = IF ok THEN 200 ELSE 500]
     /\ sent' = IF gone THEN {}
                ELSE IF reqs[i].via = "socket"
                  THEN IoToEmit(ioRooms, reqs[i].socket,
                                IF ok THEN "execution-result" ELSE "execution-error",
                                reqs[i].sessionId, answer, 0, {}, NoMsg)
                  ELSE HttpResponse(reqs[i].sessionId, IF ok THEN 200 ELSE 500)
  /\ UNCHANGED <<ver, proc, lookups, sockVars, roomVars, timeVars, nchat, docVars, dbVars, routeVars>>

\* request i gets the answer of the Piston API: the listener emits the
\* outcome to the room; the route records the execution and sends its
\* response, or answers 500 when the call or a save was rejected
PistonAnswers(i, answer) ==
  /\ proc = "running"
  /\ i \in InFlight
  /\ last' = Event("piston-answer", reqs[i].socket, reqs[i].sessionId, answer, TRUE)
  /\ \E saved \in SaveOutcomes(i, answer) :
       LET ok == Resolved(answer) /\ saved IN
       /\ reqs' = [reqs EXCEPT ![i].state = IF ok THEN "Succeeded" ELSE "Failed",
                               ![i].status = IF ok THEN 200 ELSE 500,
                               ![i].success = IF saved
                                                THEN SuccessFlag(reqs[i].via, answer)
                                                ELSE "false"]
       /\ sent' = IF reqs[i].via = "socket"
                    THEN IoToEmit(ioRooms, reqs[i].socket,
                                  IF ok THEN "execution-result" ELSE "execution-error",
                                  reqs[i].sessionId, answer, 0, {}, NoMsg)
                    ELSE HttpResponse(reqs[i].sessionId, IF ok THEN 200 ELSE 500)
       /\ RouteRecords(i, answer, saved)
  /\ UNCHANGED <<ver, proc, lookups, sockVars, roomVars, timeVars, nchat, docVars,
                 routeVars>>

\* the 15 s timeout of the call made by the route (ECONNABORTED); the call
\* made by the execute-code listener has no timeout
RunTimeout(i) ==
  /\ proc = "running"
  /\ i \in InFlight
  /\ reqs[i].via = "http"
  /\ reqs[i].start + ExecTimeoutMs <= now
  /\ last' = Event("piston-timeout", reqs[i].socket, reqs[i].sessionId, Undefined, TRUE)
  /\ reqs' = [reqs EXCEPT ![i].state = "Failed", ![i].status = 500,
                          ![i].success = "false"]
  /\ sent' = HttpResponse(reqs[i].sessionId, 500)
  /\ UNCHANGED <<ver, proc, lookups, sockVars, roomVars, timeVars, nchat, docVars, dbVars, routeVars>>

\* the clock of the execution runs; a timeout that is due fires first,
\* and the lookups of the route are answered within a tick
ExecTick ==
  /\ now + ExecTickMs <= MaxExecTime
  /\ lookups = << >>
  /\ \A i \in InFlight :
       reqs[i].via = "http" => reqs[i].start + ExecTimeoutMs > now
  /\ now' = now + ExecTickMs
  /\ sent' = {}
  /\ last' = NoEvent
  /\ UNCHANGED <<ver, execVars, sockVars, roomVars, timers, nchat, docVars>>

\* ------------------------------------------- events without a payload
\* process.exit(1), or the runtime ending the process: every connection
\* and everything held in memory is gone
ProcessExit ==
  /\ proc' = "exited"
  /\ sock' = [c \in Conns |-> "closed"]
  /\ userData' = [c \in Conns |-> NoUser]
  /\ currentSession' = [c \in Conns |-> Undefined]
  /\ userSockets' = EmptyMap
  /\ ioRooms' = [s \in RoomIds |-> {}]
  /\ activeSessions' = EmptyMap
  /\ sessionCode' = EmptyMap
  /\ sessionCursors' = EmptyMap
  /\ sessionChats' = EmptyMap
  /\ timers' = {}

\* a rejected promise of an async listener that nobody handles: revision 2
\* exits in process.on('unhandledRejection'); revisions 1 and 3 install no
\* handler and the runtime decides (it ends the process or only warns)
RejectionExits == IF ver = 2 THEN {TRUE} ELSE BOOLEAN

\* `const { sessionId, ... } = data` with data undefined throws a TypeError
\* outside every try block
Thrown(c, ev, exits) ==
  /\ last' = Event(ev, c, Undefined, "absent", FALSE)
  /\ sent' = {}
  /\ IF exits THEN ProcessExit
              ELSE UNCHANGED <<proc, sockVars, roomVars, timers>>
  /\ UNCHANGED <<ver, reqs, lookups, now, nchat, docVars, dbVars, routeVars>>

\* join-session without a payload (async listener)
JoinSessionAbsent(c) ==
  /\ proc = "running"
  /\ sock[c] = "open"
  /\ \E exits \in RejectionExits : Thrown(c, "join-session", exits)

\* leave-session without a payload: revisions 1 and 2 pass undefined on to
\* handleUserLeaveSession; the listener of revision 3 destructures it, and
\* the exception of a synchronous listener ends the process
LeaveSessionAbsent(c) ==
  /\ proc = "running"
  /\ sock[c] = "open"
  /\ IF ver = 3 THEN Thrown(c, "leave-session", TRUE)
                ELSE LeaveSession(c, Undefined)

\* execute-code without a payload (async listener; none in revision 3)
ExecuteCodeAbsent(c) ==
  /\ proc = "running"
  /\ sock[c] = "open"
  /\ IF ver = 3
       THEN /\ last' = Event("execute-code", c, Undefined, "absent", FALSE)
            /\ sent' = {}
            /\ UNCHANGED <<ver, execVars, sockVars, roomVars, timeVars, nchat, docVars>>
       ELSE \E exits \in RejectionExits : Thrown(c, "execute-code", exits)

\* ------------------------------------------------------- specifications
\* rooms, membership and edits with well-formed payloads, all three
\* revisions, between two ticks of the clock
Next ==
  \/ \E c \in Conns, s \in RoomIds : JoinSession(c, s, "u1")
  \/ \E c \in Conns, s \in RoomIds : LeaveSession(c, s)
  \/ \E c \in Conns : Disconnect(c)
  \/ \E c \in Conns, s \in RoomIds, x \in Codes : CodeChange(c, s, x)

Spec == Init /\ [][Next]_vars

\* chat in one room that two connections have joined; in revision 3 the log
\* already holds ChatPreload messages, sent by c1 one per millisecond
PreloadedChats ==
  [k \in 1 .. ChatPreload |->
     [id |-> k * RandLevels, message |-> "hi", userId |-> "u1",
      username |-> "u1", timestamp |-> k, socketId |-> "c1"]]

InitChat ==
  /\ ver \in Versions
  /\ sock = [c \in Conns |-> "open"]
  /\ userData = [c \in Conns |-> IF c = "c1" THEN [id |-> "u1", username |-> "u1"]
                                             ELSE NoUser]
  /\ userSockets = [u \in {"u1"} |-> "c1"]
  /\ currentSession = [c \in Conns |-> "r1"]
  /\ ioRooms = [s \in RoomIds |-> IF s = "r1" THEN Conns ELSE {}]
  /\ activeSessions = [s \in {"r1"} |-> [c \in Conns |-> Participant("u1")]]
  /\ sessionCode = [s \in {"r1"} |-> WelcomeCode]
  /\ sessionCursors = [s \in {"r1"} |-> EmptyMap]
  /\ sessionChats = IF ver = 3 THEN [s \in {"r1"} |-> PreloadedChats] ELSE EmptyMap
  /\ now = ChatPreload
  /\ timers = {}
  /\ nchat = 0
  /\ sent = {}
  /\ last = NoEvent
  /\ typingUsers = << >>
  /\ docTimers = {}
  /\ proc = "running"
  /\ reqs = << >>
  /\ lookups = << >>
  /\ InitDb

NextChat ==
  \/ \E c \in Conns, m \in {"hi", " "}, rnd \in 0 .. (RandLevels - 1) :
       ChatMessage(c, "r1", m, rnd, MaxChatAppends)
  \/ \E c \in Conns : JoinSession(c, "r1", "u1")
  \/ \E c \in Conns : LeaveSession(c, "r1")
  \/ \E c \in Conns : Disconnect(c)
  \/ Tick

SpecChat == InitChat /\ [][NextChat]_vars

\* typing flags and their timers: revision 1 of the server (one room, c1
\* edits, c2 comes and goes) and a CodeState document; callbacks that are
\* due run, and the clock advances
InitTyping == Init /\ ver = 1

NextTyping ==
  \/ \E c \in Conns : JoinSession(c, "r1", "u1")
  \/ \E c \in Conns : LeaveSession(c, "r1")
  \/ \E c \in Conns : Disconnect(c)
  \/ CodeChange("c1", "r1", "a")
  \/ \E t \in timers : TypingTimeout(t)
  \/ \E u \in Users : SetTyping(u)
  \/ ClearTyping("u1")
  \/ \E t \in docTimers : SetTypingTimeout(t)
  \/ Tick

SpecTyping ==
  /\ InitTyping
  /\ [][NextTyping]_vars
  /\ WF_vars(Tick)
  /\ WF_vars(\E t \in timers : TypingTimeout(t))
  /\ WF_vars(\E t \in docTimers : SetTypingTimeout(t))

\* identification and the room-scoped events of one room, malformed
\* payloads included
NextGateway ==
  \/ \E c \in Conns, id \in {"u1", Undefined} : Authenticate(c, id, id)
  \/ \E c \in Conns, s \in {"r1", Undefined}, u \in {"u1", Undefined} :
       JoinSession(c, s, u)
  \/ \E c \in Conns, s \in {"r1", Undefined}, x \in {"a", Undefined} :
       CodeChange(c, s, x)
  \/ \E c \in Conns, s \in {"r1", Undefined}, p \in Positions \cup {Undefined} :
       CursorPosition(c, s, p)
  \/ \E c \in Conns, s \in {"r1", Undefined}, m \in {"hi", Undefined} :
       ChatMessage(c, s, m, 0, MaxChats)
  \/ \E c \in Conns, s \in {"r1", Undefined}, b \in BOOLEAN : TypingEvent(c, s, b)

SpecGateway == Init /\ [][NextGateway]_vars

\* one room with its comings and goings, edits and the typing callbacks of
\* revision 1, all three revisions
NextPresence ==
  \/ \E c \in Conns : JoinSession(c, "r1", "u1")
  \/ \E c \in Conns : LeaveSession(c, "r1")
  \/ \E c \in Conns : Disconnect(c)
  \/ \E c \in Conns : CodeChange(c, "r1", "a")
  \/ \E t \in timers : TypingTimeout(t)
  \/ Tick

SpecPresence == Init /\ [][NextPresence]_vars

\* one room, edits and executions, and events that arrive without a
\* payload
NextFaults ==
  \/ \E c \in Conns : JoinSession(c, "r1", "u1")
  \/ \E c \in Conns : CodeChange(c, "r1", "a")
  \/ \E c \in Conns : ExecuteCode(c, "r1", "a", "python")
  \/ \E i \in 1 .. MaxRequests, a \in {"ok", "500"} : PistonAnswers(i, a)
  \/ \E c \in Conns : JoinSessionAbsent(c)
  \/ \E c \in Conns : LeaveSessionAbsent(c)
  \/ \E c \in Conns : ExecuteCodeAbsent(c)

SpecFaults == Init /\ [][NextFaults]_vars

\* executions asked for over the socket (revisions 1 and 2) and over
\* POST /api/execute/run, the answers of the Piston API and the clock; c1
\* has joined room r1 and c2 room r2; the timeout of a call fires when it
\* is due, the Piston API owes no answer
InitExec ==
  /\ ver \in Versions
  /\ sock = [c \in Conns |-> "open"]
  /\ userData = [c \in Conns |-> NoUser]
  /\ userSockets = EmptyMap
  /\ currentSession = [c \in Conns |-> IF c = "c1" THEN "r1" ELSE "r2"]
  /\ ioRooms = [s \in RoomIds |-> IF s = "r1" THEN {"c1"} ELSE {"c2"}]
  /\ activeSessions =
       [s \in RoomIds |-> IF s = "r1" THEN [c \in {"c1"} |-> Participant("u1")]
                                      ELSE [c \in {"c2"} |-> Participant("u1")]]
  /\ sessionCode = [s \in RoomIds |-> WelcomeCode]
  /\ sessionCursors = [s \in RoomIds |-> EmptyMap]
  /\ sessionChats = IF ver = 3 THEN [s \in RoomIds |-> << >>] ELSE EmptyMap
  /\ now = 0
  /\ timers = {}
  /\ nchat = 0
  /\ sent = {}
  /\ last = NoEvent
  /\ typingUsers = << >>
  /\ docTimers = {}
  /\ proc = "running"
  /\ reqs = << >>
  /\ lookups = << >>
  /\ InitDb

NextExec ==
  \/ \E c \in Conns, l \in {"python", Undefined} :
       ExecuteCode(c, currentSession[c], "a", l)
  \/ \E l \in Languages \cup {Undefined}, a \in {"ok", "nouser"} :
       RunRoute("a", l, Undefined, a)
  \/ \E a \in {"ok", "nosession", "denied", "disabled"} :
       RunRoute("a", "python", "r1", a)
  \/ \E k \in 1 .. MaxRequests : RunLookups(k)
  \/ \E i \in 1 .. MaxRequests, a \in Answers : PistonAnswers(i, a)
  \/ \E i \in 1 .. MaxRequests : RunTimeout(i)
  \/ ExecTick

SpecExec ==
  /\ InitExec
  /\ [][NextExec]_vars
  /\ WF_vars(ExecTick)
  /\ WF_vars(\E i \in 1 .. MaxRequests : RunTimeout(i))
  /\ WF_vars(\E k \in 1 .. MaxRequests : RunLookups(k))

\* executions asked for in one room whose participants come and go
NextExecRoom ==
  \/ \E c \in Conns : JoinSession(c, "r1", "u1")
  \/ \E c \in Conns : LeaveSession(c, "r1")
  \/ \E c \in Conns : Disconnect(c)
  \/ \E c \in Conns : ExecuteCode(c, "r1", "a", "python")
  \/ \E i \in 1 .. MaxRequests, a \in {"ok", "500"} : PistonAnswers(i, a)

SpecExecRoom == Init /\ [][NextExecRoom]_vars

\* an entry of activeParticipants
Member(user, isActive) == [user |-> user, isActive |-> isActive]

\* POST /api/execute/run alone, with and without the session of the caller
InitRun == Init /\ ver = 3

NextRun ==
  \/ \E l \in Languages \cup {Undefined} : RunRoute("a", l, Undefined, "ok")
  \/ \E s \in RoomIds : RunRoute("a", "python", s, AccessOf(s))
  \/ RunRoute("a", "python", "r1", "nouser")
  \/ \E k \in 1 .. MaxRequests : RunLookups(k)
  \/ \E i \in 1 .. MaxRequests, a \in {"ok", "stderr", "429", "500"} :
       PistonAnswers(i, a)
  \/ \E i \in 1 .. MaxRequests : RunTimeout(i)
  \/ ExecTick

SpecRun == InitRun /\ [][NextRun]_vars

\* the session checks of POST /api/execute/run, on a stored session with
\* either creator, with or without the caller among its participants,
\* active or not, and with execution enabled or disabled
InitAccess ==
  /\ InitServer
  /\ ver = 3
  /\ userDoc = NewUser
  /\ InitRoutes
  /\ \E creator \in Users, enabled \in BOOLEAN,
        ps \in {<< >>, <<Member("u1", TRUE)>>, <<Member("u1", FALSE)>>} :
       sessionDoc = [NewSession(creator) EXCEPT !.activeParticipants = ps,
                                                !.executionEnabled = enabled]

NextAccess ==
  \/ \E s \in RoomIds : RunRoute("a", "python", s, AccessOf(s))
  \/ RunRoute("a", "python", "r1", "nouser")
  \/ \E k \in 1 .. MaxRequests : RunLookups(k)
  \/ \E i \in 1 .. MaxRequests : PistonAnswers(i, "ok")

SpecAccess == InitAccess /\ [][NextAccess]_vars

\* session.addExecution(executionData) followed by its save, called on the
\* stored document at an instant of its own
SessionAddExecution(answer) ==
  /\ now < HistoryPreload + MaxHistoryAppends
  /\ now' = now + 1
  /\ sessionDoc' = [AddExecution(sessionDoc, ExecutionData(answer)) EXCEPT !.v = @ + 1]
  /\ last' = Event("add-execution", HttpCaller, "r1", answer, TRUE)
  /\ sent' = {}
  /\ UNCHANGED <<ver, sockVars, roomVars, timers, nchat, docVars, proc, reqs,
                 lookups, userDoc, routeVars>>

\* the execution history of a session after HistoryPreload calls of
\* addExecution, one per instant from 0 on: newest first
PreloadedHistory ==
  [n \in 1 .. HistoryPreload |->
     [output |-> "ok", error |-> "", executedBy |-> CallerId,
      executedAt |-> HistoryPreload - n]]

InitHistory ==
  /\ ver = 3
  /\ sock = [c \in Conns |-> "open"]
  /\ userData = [c \in Conns |-> NoUser]
  /\ currentSession = [c \in Conns |-> Undefined]
  /\ userSockets = EmptyMap
  /\ ioRooms = [s \in RoomIds |-> {}]
  /\ activeSessions = EmptyMap
  /\ sessionCode = EmptyMap
  /\ sessionCursors = EmptyMap
  /\ sessionChats = EmptyMap
  /\ timers = {}
  /\ nchat = 0
  /\ sent = {}
  /\ last = NoEvent
  /\ typingUsers = << >>
  /\ docTimers = {}
  /\ proc = "running"
  /\ reqs = << >>
  /\ lookups = << >>
  /\ userDoc = NewUser
  /\ InitRoutes
  /\ sessionDoc = [NewSession(CallerId) EXCEPT
                     !.executionHistory = PreloadedHistory,
                     !.totalExecutions = HistoryPreload,
                     !.v = HistoryPreload]
  /\ now = HistoryPreload

NextHistory == \E a \in Answers : SessionAddExecution(a)

SpecHistory == InitHistory /\ [][NextHistory]_vars

\* ------------------------------------------ router.post('/join') (REST)
\* sessionCode.toUpperCase()
ToUpperCase(code) == IF code = "abc123" THEN "ABC123" ELSE code

\* the handler up to its await of User.findById: the validation of the
\* code and Session.findOne, whose result the handler keeps
JoinRoute(u, code) ==
  /\ Len(joins) < MaxJoins
  /\ last' = Event("join", HttpCaller, code, u,
                   ~Falsy(code) /\ ToUpperCase(code) = StoredCode)
  /\ IF Falsy(code) \/ Len(code) # SessionCodeLength
       THEN sent' = HttpResponse(code, 400) /\ UNCHANGED joins
     ELSE IF ToUpperCase(code) # StoredCode
       THEN sent' = HttpResponse(code, 404) /\ UNCHANGED joins
     ELSE /\ sent' = {}
          /\ joins' = Append(joins, [user |-> u, session |-> sessionDoc,
                                     state |-> "loaded", status |-> 0])
  /\ UNCHANGED <<ver, sockVars, roomVars, timeVars, nchat, docVars, proc, reqs,
                 lookups, dbVars, logins, codeState>>

\* what the handler decides on the session it loaded: 404 without the
\* user, 400 for a full session, 200 for a user who is already in it, and
\* (201 here) a user who is added and then answered 200
JoinStatus(session, u, userFound) ==
  IF ~userFound THEN 404
  ELSE IF Len(session.activeParticipants) >= session.maxParticipants THEN 400
  ELSE IF \E n \in 1 .. Len(session.activeParticipants) :
            session.activeParticipants[n].user = u
    THEN 200
  ELSE 201

\* the handler from the answer of User.findById to its response.  The
\* participant is pushed onto the array of the loaded document and save()
\* sends the push to the stored array and sets stats.totalParticipants to
\* the loaded count plus one; user.addRecentSession writes a field of the
\* joiner that nothing here reads
JoinFinish(k, userFound) ==
  /\ k \in 1 .. Len(joins)
  /\ joins[k].state = "loaded"
  /\ LET session == joins[k].session
         u == joins[k].user
         status == JoinStatus(session, u, userFound)
     IN /\ last' = Event("join-finish", HttpCaller, "r1", u, status \in {200, 201})
        /\ sessionDoc' =
             IF status = 201
               THEN [sessionDoc EXCEPT
                       !.activeParticipants = Append(@, Member(u, TRUE)),
                       !.totalParticipants = session.totalParticipants + 1,
                       !.v = @ + 1]
               ELSE sessionDoc
        /\ joins' = [joins EXCEPT ![k].state = "done",
                                  ![k].status = IF status = 201 THEN 200 ELSE status]
        /\ sent' = HttpResponse(StoredCode, IF status = 201 THEN 200 ELSE status)
  /\ UNCHANGED <<ver, sockVars, roomVars, timeVars, nchat, docVars, proc, reqs,
                 lookups, userDoc, logins, codeState>>

\* a session that its creator u1 made for MinMaxParticipants participants
\* (the creator is its first participant), and join requests of three users
InitJoin ==
  /\ InitServer
  /\ ver = 3
  /\ userDoc = NewUser
  /\ InitRoutes
  /\ sessionDoc = [NewSession("u1") EXCEPT
                     !.activeParticipants = <<Member("u1", TRUE)>>,
                     !.maxParticipants = MinMaxParticipants]

NextJoin ==
  \/ \E u \in Joiners, code \in SessionCodes : JoinRoute(u, code)
  \/ \E k \in 1 .. MaxJoins, userFound \in BOOLEAN : JoinFinish(k, userFound)

SpecJoin == InitJoin /\ [][NextJoin]_vars

\* ----------------------------------------- router.post('/login') (REST)
\* userSchema.virtual('isLocked') at time t
IsLocked(user, t) == user.lockUntil # 0 /\ user.lockUntil > t

\* the handler up to its await of user.comparePassword, for a request that
\* the rate limiter let through.  cred: "good" and "bad" name the account
\* with the right and a wrong password, "unknown" names no account,
\* "missing" lacks identifier or password
LoginRoute(cred) ==
  /\ Len(logins) < MaxLogins
  /\ last' = Event("login", HttpCaller, Undefined, cred,
                   cred \in {"good", "bad"} /\ ~IsLocked(userDoc, now))
  /\ IF cred = "missing"
       THEN sent' = HttpResponse(Undefined, 400) /\ UNCHANGED logins
     ELSE IF cred = "unknown"
       THEN sent' = HttpResponse(Undefined, 401) /\ UNCHANGED logins
     ELSE IF IsLocked(userDoc, now)
       THEN sent' = HttpResponse(Undefined, 423) /\ UNCHANGED logins
     ELSE /\ sent' = {}
          /\ logins' = Append(logins, [valid |-> cred = "good", user |-> userDoc])
  /\ UNCHANGED <<ver, sockVars, roomVars, timeVars, nchat, docVars, proc, reqs,
                 lookups, dbVars, joins, codeState>>

\* userSchema.methods.incLoginAttempts on the loaded document user: the
\* conditions read the loaded fields, updateOne writes the stored document
IncLoginAttempts(user) ==
  IF user.lockUntil # 0 /\ user.lockUntil < now
    THEN [userDoc EXCEPT !.lockUntil = 0, !.loginAttempts = 1]
    ELSE [userDoc EXCEPT
            !.loginAttempts = @ + 1,
            !.lockUntil = IF user.loginAttempts + 1 >= MaxAttempts /\ ~IsLocked(user, now)
                            THEN now + LockTimeMs
                            ELSE @]

\* userSchema.methods.resetLoginAttempts: $unset of both fields
ResetLoginAttempts == [userDoc EXCEPT !.loginAttempts = 0, !.lockUntil = 0]

\* the handler from the answer of comparePassword to its response; the
\* save of lastActive and rememberToken writes fields that nothing here
\* reads
LoginFinish(k) ==
  /\ k \in 1 .. Len(logins)
  /\ LET user == logins[k].user
         valid == logins[k].valid
     IN /\ last' = Event("login-finish", HttpCaller, Undefined,
                         IF valid THEN "good" ELSE "bad", valid)
        /\ userDoc' = IF ~valid THEN IncLoginAttempts(user)
                      ELSE IF user.loginAttempts > 0 THEN ResetLoginAttempts
                      ELSE userDoc
        /\ sent' = HttpResponse(Undefined, IF valid THEN 200 ELSE 401)
        /\ logins' = Without(logins, k)
  /\ UNCHANGED <<ver, sockVars, roomVars, timeVars, nchat, docVars, proc, reqs,
                 lookups, sessionDoc, joins, codeState>>

\* time passes between login requests
LoginTick ==
  /\ now + LoginTickMs <= MaxLoginTime
  /\ now' = now + LoginTickMs
  /\ sent' = {}
  /\ last' = NoEvent
  /\ UNCHANGED <<ver, execVars, sockVars, roomVars, timers, nchat, docVars>>

InitLogin == Init /\ ver = 3

NextLogin ==
  \/ \E cred \in {"good", "bad", "unknown", "missing"} : LoginRoute(cred)
  \/ \E k \in 1 .. MaxLogins : LoginFinish(k)
  \/ LoginTick

SpecLogin == InitLogin /\ [][NextLogin]_vars

\* ------------------------------ codeStateSchema.methods.applyOperation
\* the characters of the content and of inserted text
Chars == {"a", "\n"}

\* all strings over Chars of length n and of length at most n
StringsOfLen(n) == [1 .. n -> Chars]
StringsUpTo(n) == UNION {StringsOfLen(k) : k \in 0 .. n}

\* str.includes('\n')
IncludesNewline(str) == \E i \in 1 .. Len(str) : str[i] = "\n"

\* str.split('\n')
RECURSIVE Split(_)
Split(str) ==
  IF ~IncludesNewline(str) THEN <<str>>
  ELSE LET i == CHOOSE j \in 1 .. Len(str) :
                  str[j] = "\n" /\ \A k \in 1 .. j - 1 : str[k] # "\n"
       IN <<SubSeq(str, 1, i - 1)>> \o Split(SubSeq(str, i + 1, Len(str)))

\* lines.join('\n')
RECURSIVE Join(_)
Join(lines) ==
  IF Len(lines) = 0 THEN << >>
  ELSE IF Len(lines) = 1 THEN lines[1]
  ELSE lines[1] \o <<"\n">> \o Join(Tail(lines))

\* str.substring(start, end): both indexes are clamped to 0 .. length and
\* swapped when start > end
Substring(str, start, end) ==
  LET clamp(n) == IF n < 0 THEN 0 ELSE IF n > Len(str) THEN Len(str) ELSE n
      lo == IF clamp(start) <= clamp(end) THEN clamp(start) ELSE clamp(end)
      hi == IF clamp(start) <= clamp(end) THEN clamp(end) ELSE clamp(start)
  IN SubSeq(str, lo + 1, hi)

\* an operation: position.line and position.column count from 0
Operation(type, line, column, content, length) ==
  [type |-> type, line |-> line, column |-> column, content |-> content,
   length |-> length]

\* variant: delete removes from the cursor to the end of the line
EditedLinesDeleteToEnd(lines, op) ==
  IF op.line >= Len(lines) THEN lines
  ELSE
    LET line == lines[op.line + 1]
        beforeCursor == Substring(line, 0, op.column)
        afterCursor == Substring(line, op.column, Len(line))
        cut == Substring(line, op.column + op.length, Len(line))
        insertLines == Split(op.content)
        n == Len(insertLines)
    IN CASE op.type = "insert" /\ IncludesNewline(op.content) ->
              SubSeq(lines, 1, op.line)
                \o <<beforeCursor \o insertLines[1]>>
                \o SubSeq(insertLines, 2, n - 1)
                \o <<insertLines[n] \o afterCursor>>
                \o SubSeq(lines, op.line + 2, Len(lines))
         [] op.type = "insert" /\ ~IncludesNewline(op.content) ->
              [lines EXCEPT ![op.line + 1] = beforeCursor \o op.content \o afterCursor]
         [] op.type = "delete" ->
              [lines EXCEPT ![op.line + 1] = beforeCursor]
         [] op.type = "replace" ->
              [lines EXCEPT ![op.line + 1] = beforeCursor \o op.content \o cut]

\* the switch of applyOperation on the lines of the content
EditedLines(lines, op) ==
  IF op.line >= Len(lines) THEN lines
  ELSE
    LET line == lines[op.line + 1]
        beforeCursor == Substring(line, 0, op.column)
        afterCursor == Substring(line, op.column, Len(line))
        cut == Substring(line, op.column + op.length, Len(line))
        insertLines == Split(op.content)
        n == Len(insertLines)
    IN CASE op.type = "insert" /\ IncludesNewline(op.content) ->
              SubSeq(lines, 1, op.line)
                \o <<beforeCursor \o insertLines[1]>>
                \o SubSeq(insertLines, 2, n - 1)
                \o <<insertLines[n] \o afterCursor>>
                \o SubSeq(lines, op.line + 2, Len(lines))
         [] op.type = "insert" /\ ~IncludesNewline(op.content) ->
              [lines EXCEPT ![op.line + 1] = beforeCursor \o op.content \o afterCursor]
         [] op.type = "delete" ->
              [lines EXCEPT ![op.line + 1] = beforeCursor \o cut]
         [] op.type = "replace" ->
              [lines EXCEPT ![op.line + 1] = beforeCursor \o op.content \o cut]

\* codeStateSchema.methods.applyOperation on the document doc, for an
\* operation that has its position and, for insert and replace, its content
ApplyOperation(doc, op) ==
  LET unshifted == <<op>> \o doc.operations IN
  [doc EXCEPT
     !.content = Join(EditedLines(Split(doc.content), op)),
     !.version = @ + 1,
     !.operations = IF Len(unshifted) > OperationsCapacity
                      THEN SubSeq(unshifted, 1, OperationsCapacity)
                      ELSE unshifted]

\* the strings without a line break of at most n characters
NewlineFree(n) == UNION {[1 .. k -> Chars \ {"\n"}] : k \in 0 .. n}

\* the operations that are applied: inserts of "a" and of a line break,
\* deletes of one character, replaces of one character by "a"
Operations ==
  {Operation("insert", l, c, x, 0) :
     l \in 0 .. MaxLine, c \in 0 .. MaxColumn, x \in {<<"a">>, <<"\n">>}}
  \cup {Operation("delete", l, c, << >>, n) :
          l \in 0 .. MaxLine, c \in 0 .. MaxColumn, n \in {1}}
  \cup {Operation("replace", l, c, <<"a">>, 1) :
          l \in 0 .. MaxLine, c \in 0 .. MaxColumn}

\* one call of codeState.applyOperation(op), one call per instant
ApplyOp(op) ==
  /\ now < MaxOps
  /\ now' = now + 1
  /\ codeState' = ApplyOperation(codeState, op)
  /\ last' = Event("apply-operation", HttpCaller, Undefined, op.type, TRUE)
  /\ sent' = {}
  /\ UNCHANGED <<ver, sockVars, roomVars, timers, nchat, docVars, proc, reqs,
                 lookups, dbVars, joins, logins>>

\* the operations of a document after n calls of applyOperation
PreloadedOperations(n) == [k \in 1 .. n |-> Operation("insert", 0, 0, << >>, 0)]

\* a document of any content up to MaxContentLen characters that has
\* either no operation behind it or OpsPreload of them
InitCodeState ==
  /\ InitServer
  /\ ver = 3
  /\ sessionDoc = NewSession(CallerId)
  /\ userDoc = NewUser
  /\ joins = << >>
  /\ logins = << >>
  /\ \E content \in StringsUpTo(MaxContentLen), n \in {0, OpsPreload} :
       codeState = [content |-> content, version |-> 1 + n,
                    operations |-> PreloadedOperations(n)]

NextCodeState == \E op \in Operations : ApplyOp(op)

SpecCodeState == InitCodeState /\ [][NextCodeState]_vars

\* identification: authenticate events with either user, or with no id, on
\* connections that join and drop
NextIdentity ==
  \/ \E c \in Conns, id \in Users \cup {Undefined} : Authenticate(c, id, id)
  \/ \E c \in Conns : JoinSession(c, "r1", "u1")
  \/ \E c \in Conns : Disconnect(c)

SpecIdentity == Init /\ [][NextIdentity]_vars

\* cursors: connections that join, leave and drop send cursor-position
\* events that name either room
NextCursor ==
  \/ \E c \in Conns, s \in RoomIds : JoinSession(c, s, "u1")
  \/ \E c \in Conns, s \in RoomIds : LeaveSession(c, s)
  \/ \E c \in Conns : Disconnect(c)
  \/ \E c \in Conns, s \in RoomIds, p \in Positions : CursorPosition(c, s, p)

SpecCursor == Init /\ [][NextCursor]_vars

\* ---------------------------------------------------------------- claims
\* roomSize(roomId)
RoomSize(s) ==
  IF Has(activeSessions, s) THEN Cardinality(DOMAIN activeSessions[s]) ELSE 0

\* the connections that are registered in the room and still connected
LiveParticipants(s) ==
  IF Has(activeSessions, s)
    THEN {c \in DOMAIN activeSessions[s] : sock[c] = "open"}
    ELSE {}

\* C1: the participant count of a room equals the number of connections
\* that joined it and have not left or disconnected since (the sockets the
\* adapter holds in the room), and the room is in the registry
\* (activeSessions, sessionCode, sessionCursors, and sessionChats in
\* revision 3) if and only if that count is greater than zero.
C1_CountAndPresence ==
  \A s \in RoomIds :
    /\ RoomSize(s) = Cardinality(ioRooms[s])
    /\ Has(activeSessions, s) <=> RoomSize(s) > 0
    /\ Has(sessionCode, s) <=> RoomSize(s) > 0
    /\ Has(sessionCursors, s) <=> RoomSize(s) > 0
    /\ ver = 3 => (Has(sessionChats, s) <=> RoomSize(s) > 0)

\* C2: when the last participant of a room leaves, the participant map,
\* the buffer, the cursor table and the chat log of the room go in that same
\* step; no state holds a buffer, cursor table or chat log for a room without
\* a participant map; and a first join of a room starts from the initial
\* buffer and an empty chat log.
C2_DestroyedAtomically ==
  [][\A s \in RoomIds :
       /\ (Has(sessionCode, s) \/ Has(sessionCursors, s) \/ Has(sessionChats, s))'
            => Has(activeSessions, s)'
       /\ (RoomSize(s) > 0 /\ RoomSize(s)' = 0)
            => ~(Has(activeSessions, s) \/ Has(sessionCode, s)
                   \/ Has(sessionCursors, s) \/ Has(sessionChats, s))'
       /\ (RoomSize(s) = 0 /\ RoomSize(s)' > 0)
            => /\ sessionCode'[s] = WelcomeCode
               /\ ver = 3 => sessionChats'[s] = << >>
    ]_vars

\* C3: after an edit of an existing room by one of its participants the
\* stored buffer of the room is the content of that edit.
C3_LastWriteWins ==
  (/\ last.ev = "code-change"
   /\ Has(activeSessions, last.sessionId)
   /\ Has(activeSessions[last.sessionId], last.socket))
    => /\ Has(sessionCode, last.sessionId)
       /\ sessionCode[last.sessionId] = last.code

\* C4: an edit from a participant A of a room is delivered to every other
\* connection that is a participant of the room, and never to A.
C4_EditFanOut ==
  (/\ last.ev = "code-change"
   /\ Has(activeSessions, last.sessionId)
   /\ Has(activeSessions[last.sessionId], last.socket))
    => LET got == {m.to : m \in {x \in sent : x.ev = "code-change"}} IN
       /\ LiveParticipants(last.sessionId) \ {last.socket} \subseteq got
       /\ last.socket \notin got

\* C10: an edit, cursor or chat event never adds a key to activeSessions,
\* sessionCode, sessionCursors or sessionChats.
C10_OnlyJoinCreates ==
  [][last'.ev \in {"code-change", "cursor-position", "chat-message"}
       => /\ DOMAIN activeSessions' = DOMAIN activeSessions
          /\ DOMAIN sessionCode' = DOMAIN sessionCode
          /\ DOMAIN sessionCursors' = DOMAIN sessionCursors
          /\ DOMAIN sessionChats' = DOMAIN sessionChats
    ]_vars

Last(q) == q[Len(q)]

\* the step handles a chat event that passes the guard of the handler and
\* names room s, which has a chat log
ChatStored(s) ==
  /\ last'.ev = "chat-message"
  /\ last'.accepted
  /\ last'.sessionId = s
  /\ Has(sessionChats, s) /\ Has(sessionChats', s)

\* C5: a chat log never holds more than 100 messages; a message appended to
\* a log of 100 evicts exactly the oldest one, the others keep their order
\* and the new message is the last entry.
C5_ChatLogBounded ==
  [][\A s \in DOMAIN sessionChats' :
       /\ Len(sessionChats'[s]) <= ChatCapacity
       /\ ChatStored(s) =>
            /\ Last(sessionChats'[s]).socketId = last'.socket
            /\ Last(sessionChats'[s]).message = Trim(last'.code)
            /\ Last(sessionChats'[s]).timestamp = now
            /\ IF Len(sessionChats[s]) = ChatCapacity
                 THEN sessionChats'[s]
                        = Append(Tail(sessionChats[s]), Last(sessionChats'[s]))
                 ELSE sessionChats'[s]
                        = Append(sessionChats[s], Last(sessionChats'[s]))
    ]_vars

C5_Witness ==
  /\ last.ev = "chat-message"
  /\ Has(sessionChats, "r1")
  /\ Len(sessionChats["r1"]) = ChatCapacity
  /\ sessionChats["r1"][1] # PreloadedChats[1]
  /\ Last(sessionChats["r1"]).socketId = last.socket
  /\ nchat >= 1

\* C6: the id of a stored chat message is greater than the id of every
\* message stored in the room before it.
C6_IdsIncrease ==
  [][\A s \in DOMAIN sessionChats :
       ChatStored(s) =>
         \A i \in 1 .. Len(sessionChats[s]) :
           sessionChats[s][i].id < Last(sessionChats'[s]).id
    ]_vars

\* C7: a chat message accepted from a participant of a room is sent to
\* every participant of the room, the sender included, and what is sent is
\* the record that the chat log of the room now ends with.
C7_ChatToAll ==
  (/\ last.ev = "chat-message"
   /\ last.accepted
   /\ Has(activeSessions, last.sessionId)
   /\ Has(activeSessions[last.sessionId], last.socket))
    => LET got == {m \in sent : m.ev = "chat-message"} IN
       /\ \A p \in LiveParticipants(last.sessionId) : \E m \in got : m.to = p
       /\ \E m \in got : m.to = last.socket
       /\ \A m \in got :
            /\ m.msg.socketId = last.socket
            /\ Has(sessionChats, last.sessionId)
                 => /\ sessionChats[last.sessionId] # << >>
                    /\ m.msg = Last(sessionChats[last.sessionId])

C7_Witness ==
  /\ ver = 3
  /\ last.ev = "chat-message"
  /\ last.accepted
  /\ Has(activeSessions, last.sessionId)
  /\ Has(activeSessions[last.sessionId], last.socket)
  /\ Cardinality(LiveParticipants(last.sessionId)) = 2
  /\ Cardinality({m \in sent : m.ev = "chat-message"}) = 2
  /\ Last(sessionChats[last.sessionId]).socketId = last.socket

\* the typing flag of connection c in room s (revision 1)
IsTyping(c, s) ==
  /\ Has(activeSessions, s)
  /\ Has(activeSessions[s], c)
  /\ activeSessions[s][c].isTyping

\* user u is in the typing set of the CodeState document
DocTyping(u) == \E i \in 1 .. Len(typingUsers) : typingUsers[i].userId = u

RoomScoped ==
  {"join-session", "code-change", "cursor-position", "chat-message",
   "typing-start", "typing-stop", "execute-code"}

\* C9: a room-scoped event from a connection that has not identified itself
\* is rejected, an error is sent to that connection, and no room state
\* changes.
C9_UnidentifiedRejected ==
  [][(last'.ev \in RoomScoped /\ userData[last'.socket] = NoUser)
       => /\ ~last'.accepted
          /\ \E m \in sent' : m.ev = "error" /\ m.to = last'.socket
          /\ UNCHANGED roomVars
    ]_vars

\* the rooms whose participant map holds connection c
RoomsOf(c) == {s \in DOMAIN activeSessions : Has(activeSessions[s], c)}

\* C11: a connection is a participant of at most one room, and of none
\* after its disconnect.
C11_OneRoomPerConnection ==
  \A c \in Conns :
    /\ Cardinality(RoomsOf(c)) <= 1
    /\ sock[c] = "closed" => RoomsOf(c) = {}

\* the step is a leave or a disconnect of a connection that is registered
\* in no room it could leave
LeavesNothing ==
  \/ /\ last'.ev = "leave-session"
     /\ last'.socket \in Conns
     /\ ~(/\ Has(activeSessions, last'.sessionId)
          /\ Has(activeSessions[last'.sessionId], last'.socket))
  \/ /\ last'.ev = "disconnect"
     /\ RoomsOf(last'.socket) = {}

\* the step is the disconnect of the connection whose leave was the step
\* before
DisconnectAfterLeave ==
  /\ last.ev = "leave-session"
  /\ last.accepted
  /\ last'.ev = "disconnect"
  /\ last'.socket = last.socket

\* C12: a leave or disconnect of a connection that already left or never
\* joined raises no error, changes no room state and sends no
\* participant-left notice; a disconnect that follows a leave changes no
\* room state.
C12_LeaveIdempotent ==
  [][/\ LeavesNothing
          => /\ UNCHANGED roomVars
             /\ proc' = "running"
             /\ \A m \in sent' : m.ev \notin {"user-left", "error"}
     /\ DisconnectAfterLeave => UNCHANGED roomVars
    ]_vars

\* the step takes connection c out of the participant map of room s
Departs(c, s) ==
  /\ last'.ev \in {"leave-session", "disconnect"}
  /\ last'.socket = c
  /\ Has(activeSessions, s) /\ Has(activeSessions[s], c)
  /\ ~(Has(activeSessions', s) /\ Has(activeSessions'[s], c))

\* C13: when a participant leaves a room, by leave-session or by
\* disconnect, every remaining participant is sent user-left and a
\* participant-count-update that carries the number of remaining
\* participants; and a typing-status-update is only ever emitted for a
\* connection that is a participant of the room.
C13_DepartureAnnounced ==
  [][/\ \A c \in Conns, s \in RoomIds :
          Departs(c, s) =>
            \A p \in LiveParticipants(s)' :
              /\ \E m \in sent' : m.ev = "user-left" /\ m.to = p /\ m.from = c
              /\ \E m \in sent' : /\ m.ev = "participant-count-update"
                                  /\ m.to = p
                                  /\ m.n = RoomSize(s)'
     /\ \A m \in sent' :
          m.ev = "typing-status-update"
            => /\ Has(activeSessions', m.room)
               /\ Has(activeSessions'[m.room], m.from)
    ]_vars

\* C14: after a successful join the joining connection has been sent the
\* buffer of the room, the chat history when the room has a chat log, and a
\* participant list that holds itself and exactly the connections now in
\* the room; every other participant has been sent user-joined; and a
\* participant-count-update that carries the size of the participant map
\* has been sent to the room.
C14_JoinSnapshot ==
  (last.ev = "join-session" /\ last.accepted)
    => LET c == last.socket
           s == last.sessionId
           toC == {m \in sent : m.to = c}
       IN /\ \E m \in toC : /\ m.ev \in {"code-sync", "session-joined"}
                            /\ m.code = sessionCode[s]
          /\ Has(sessionChats, s)
               => \E m \in toC : /\ m.ev = "chat-history"
                                 /\ m.n = Len(sessionChats[s])
                                 /\ sessionChats[s] # << >>
                                      => m.msg = Last(sessionChats[s])
          /\ \E m \in toC : /\ m.ev \in {"session-participants", "session-joined"}
                            /\ c \in m.ps
                            /\ m.ps = ioRooms[s]
          /\ \A p \in LiveParticipants(s) \ {c} :
               \E m \in sent : m.ev = "user-joined" /\ m.to = p /\ m.from = c
          /\ \A p \in LiveParticipants(s) :
               \E m \in sent : /\ m.ev = "participant-count-update"
                               /\ m.to = p
                               /\ m.n = RoomSize(s)

\* the step handles an edit, cursor or chat event whose room id or whose
\* content (code, position, message) is missing
Malformed ==
  /\ last'.ev \in {"code-change", "cursor-position", "chat-message"}
  /\ Falsy(last'.sessionId) \/ Falsy(last'.code)

\* C15: an edit, cursor or chat event with a missing room id or missing
\* content changes no buffer, cursor table, participant map or chat log,
\* and sends nothing to a connection other than its sender.
C15_MalformedIgnored ==
  [][Malformed
       => /\ UNCHANGED roomVars
          /\ \A m \in sent' : m.to = last'.socket
    ]_vars

\* the step handles an event without a payload, or an execution call that
\* the Piston API rejects
Faulty ==
  \/ last'.code = "absent"
  \/ last'.ev = "piston-answer" /\ last'.code \notin {"ok", "stderr"}

\* C16: an exception raised while one event is handled stays with that
\* event: the process keeps running, the rooms keep their state and every
\* other connection stays connected, identified and in its room.
C16_FaultsContained ==
  [][Faulty
       => /\ proc' = "running"
          /\ UNCHANGED roomVars
          /\ \A c \in Conns \ {last'.socket} :
               /\ sock'[c] = sock[c]
               /\ userData'[c] = userData[c]
               /\ currentSession'[c] = currentSession[c]
               /\ \A s \in RoomIds : c \in ioRooms'[s] <=> c \in ioRooms[s]
    ]_vars

\* C17: at most one call to the Piston API is in flight at any instant.
C17_OneInFlight == Cardinality(InFlight) <= 1

\* C18: two consecutive calls to the Piston API start at least 300 ms
\* apart.
C18_MinInterval ==
  \A i \in 1 .. (Len(reqs) - 1) : reqs[i + 1].start - reqs[i].start >= 300

\* C19: a request that the Piston API answers with 429 does not fail: it
\* stays pending and makes another attempt.
C19_RateLimitRetried ==
  [][(last'.ev = "piston-answer" /\ last'.code = "429")
       => \A i \in InFlight :
            reqs'[i] # reqs[i]
              => /\ reqs'[i].state # "Failed"
                 /\ reqs'[i].attempts = reqs[i].attempts + 1
    ]_vars

\* C20: a request makes at most 3 calls, and every request that was
\* submitted is eventually Succeeded or Failed.
C20_Resolves ==
  /\ [](\A i \in 1 .. Len(reqs) : reqs[i].attempts <= 3)
  /\ \A i \in 1 .. MaxRequests :
       (Len(reqs) >= i)
         ~> (Len(reqs) >= i /\ reqs[i].state \in {"Succeeded", "Failed"})

\* C21: the calls to the Piston API start in the order in which their
\* requests were submitted.
C21_SubmissionOrder ==
  \A i, j \in 1 .. Len(reqs) : i < j => reqs[i].seq < reqs[j].seq

\* a missing code, a missing language, or a language that languageMapping
\* does not hold
ClientInputError(code, language) ==
  Falsy(code) \/ Falsy(language) \/ language # "python"

\* C22: an execution request with a missing code, a missing language or an
\* unsupported language starts no call to the Piston API (and no lookup
\* that leads to one) and is answered at once with an error to its caller.
C22_ClientErrorNoCall ==
  [][\A x \in {"a", Undefined}, l \in Languages \cup {Undefined} :
       ClientInputError(x, l) =>
         /\ \A c \in Conns, s \in RoomIds :
              ExecuteCode(c, s, x, l)
                => /\ reqs' = reqs
                   /\ \E m \in sent' : /\ m.to = c
                                       /\ m.ev \in {"error", "execution-error"}
         /\ \A s \in {"r1", Undefined},
               a \in {"ok", "nouser", "nosession", "denied", "disabled"} :
              RunRoute(x, l, s, a)
                => /\ reqs' = reqs
                   /\ lookups' = lookups
                   /\ \E m \in sent' : m.ev = "http-response" /\ m.n = 400
    ]_vars

\* C29: when the execute-code listener makes its call to the Piston API,
\* execution-started has been emitted to the room in that same step, and so
\* before the outcome of the request.
C29_StartedFirst ==
  [][(Len(reqs') > Len(reqs) /\ Last(reqs').via = "socket")
       => \A p \in ioRooms[Last(reqs').sessionId] :
            \E m \in sent' : /\ m.ev = "execution-started"
                             /\ m.to = p
                             /\ m.room = Last(reqs').sessionId
    ]_vars

\* the outcome events of the step
Outcomes == {m \in sent' : m.ev \in {"execution-result", "execution-error"}}

\* the step is the answer of the Piston API to a call of the execute-code
\* listener
SocketAnswer == last'.ev = "piston-answer" /\ last'.socket \in Conns

\* C27: a disconnect leaves the pending calls alone; and when the answer
\* to a call arrives after its requester has disconnected, the request ends
\* as Succeeded or Failed, its outcome event goes to exactly the
\* connections the room has at that time (to nobody when the room has been
\* destroyed), no room state changes and the process keeps running.
C27_DisconnectKeepsCall ==
  [][/\ last'.ev = "disconnect" => reqs' = reqs
     /\ (SocketAnswer /\ sock[last'.socket] = "closed")
          => /\ \A i \in InFlight :
                  reqs'[i] # reqs[i] => reqs'[i].state \in {"Succeeded", "Failed"}
             /\ {m.to : m \in Outcomes} = LiveParticipants(last'.sessionId)
             /\ \A m \in Outcomes :
                  m.ev = (IF last'.code = "ok" THEN "execution-result"
                                               ELSE "execution-error")
             /\ UNCHANGED roomVars
             /\ proc' = "running"
    ]_vars

C27_Witness ==
  /\ last.ev = "piston-answer"
  /\ last.socket \in Conns
  /\ sock[last.socket] = "closed"
  /\ currentSession[last.socket] = last.sessionId
  /\ \E i \in 1 .. Len(reqs) :
       reqs[i].socket = last.socket /\ reqs[i].state \in {"Succeeded", "Failed"}
  /\ \E p \in Conns \ {last.socket} :
       /\ p \in LiveParticipants(last.sessionId)
       /\ \E m \in sent : m.to = p /\ m.ev \in {"execution-result", "execution-error"}

\* C23: the answer to a call of the execute-code listener produces one
\* kind of outcome event, execution-result or execution-error, which is
\* sent to every participant of the room; and every request that the
\* listener accepted gets its outcome.
C23_OneOutcomeToAll ==
  /\ [][SocketAnswer
          => /\ Cardinality({m.ev : m \in Outcomes}) <= 1
             /\ \A p \in LiveParticipants(last'.sessionId) :
                  \E m \in Outcomes : m.to = p
       ]_vars
  /\ \A i \in 1 .. MaxRequests :
       (Len(reqs) >= i /\ reqs[i].via = "socket")
         ~> (Len(reqs) >= i /\ reqs[i].state \in {"Succeeded", "Failed"})

\* the step delivers the result of request i for a 2xx answer of the
\* Piston API
Delivers(i) ==
  /\ last'.ev = "piston-answer"
  /\ last'.code \in {"ok", "stderr", "compile", "exit1"}
  /\ i \in InFlight
  /\ reqs'[i] # reqs[i]

\* C24: the success flag of a delivered result is true exactly when the
\* answer has neither run.stderr nor compile.stderr; run.code 1 with no
\* stderr still gives true.
C24_SuccessFlag ==
  [][\A i \in 1 .. MaxRequests :
       Delivers(i) => (reqs'[i].success = "true" <=> last'.code \in {"ok", "exit1"})
    ]_vars

\* C25: once a connection carries an identity, no step replaces it: the
\* user id and username bound to the connection stay what the first
\* authenticate event made them.
C25_IdentityFixed ==
  [][\A c \in Conns : userData[c] # NoUser => userData'[c] = userData[c]]_vars

\* C26: a join by a connection that is already registered in the room
\* leaves the room with the same set of connections, one entry for the
\* joiner, and the participant list and participant count that the join
\* sends out are those of before the join.
C26_OneEntryPerConnection ==
  [][\A c \in Conns, s \in RoomIds :
       (/\ JoinSession(c, s, "u1")
        /\ Has(activeSessions, s)
        /\ Has(activeSessions[s], c))
         => /\ DOMAIN activeSessions'[s] = DOMAIN activeSessions[s]
            /\ RoomSize(s)' = RoomSize(s)
            /\ \A m \in sent' :
                 /\ m.ev = "participant-count-update" => m.n = RoomSize(s)
                 /\ m.ev \in {"session-participants", "session-joined"}
                      => m.ps = DOMAIN activeSessions[s]
    ]_vars

\* c1, sole participant of r1 with an edit of its own still waiting for the
\* typing timer, has joined r1 again: its entry was replaced (isTyping is
\* false again) and the count that went out is 1
C26_Witness ==
  /\ ver = 1
  /\ last = Event("join-session", "c1", "r1", Undefined, TRUE)
  /\ \E t \in timers : t.socket = "c1" /\ t.sessionId = "r1"
  /\ RoomSize("r1") = 1
  /\ Has(activeSessions["r1"], "c1")
  /\ ~activeSessions["r1"]["c1"].isTyping
  /\ \E m \in sent : m.ev = "participant-count-update" /\ m.n = 1

\* C28: in every state, each connection with an entry in a room's cursor
\* table is registered in that room's participant map.
C28_CursorsOfParticipants ==
  \A s \in DOMAIN sessionCursors :
    /\ Has(activeSessions, s)
    /\ DOMAIN sessionCursors[s] \subseteq DOMAIN activeSessions[s]

\* c is registered in the participant map of room s
IsParticipant(c, s) == Has(activeSessions, s) /\ Has(activeSessions[s], c)

\* the buffer, cursor table and chat log of room s
RoomState(s) ==
  [code |-> IF Has(sessionCode, s) THEN sessionCode[s] ELSE Undefined,
   cursors |-> IF Has(sessionCursors, s) THEN sessionCursors[s] ELSE EmptyMap,
   chats |-> IF Has(sessionChats, s) THEN sessionChats[s] ELSE << >>]

\* C30: an edit, cursor or chat event of a connection that is a participant
\* of some room changes nothing in, and sends nothing to, a room with
\* participants that the sender is not one of, whatever room the payload
\* names.
C30_RoomIsolation ==
  [][\A a \in RoomIds, b \in RoomIds :
       (/\ last'.ev \in {"code-change", "cursor-position", "chat-message"}
        /\ IsParticipant(last'.socket, a)
        /\ Has(activeSessions, b)
        /\ ~IsParticipant(last'.socket, b))
         => /\ RoomState(b)' = RoomState(b)
            /\ \A m \in sent' : m.room # b
    ]_vars

\* the connection is open and has been identified
Identified(c) == sock[c] = "open" /\ userData[c] # NoUser

\* C31: in every state, userSockets maps a user id only to a connection
\* that is open and identified as that user, and the user id of every open
\* identified connection has an entry.
C31_UserSocketsIndex ==
  /\ \A u \in DOMAIN userSockets :
       Identified(userSockets[u]) /\ userData[userSockets[u]].id = u
  /\ \A c \in Conns : Identified(c) => Has(userSockets, userData[c].id)

\* the step in which the call of request i of the route fails: the Piston
\* API answers 429 or 5xx, or the 15 s timeout fires
CallFails(i) ==
  /\ i \in InFlight
  /\ reqs[i].via = "http"
  /\ reqs'[i] # reqs[i]
  /\ \/ last'.ev = "piston-answer" /\ last'.code \in {"429", "500"}
     \/ last'.ev = "piston-timeout"

\* C32: when the call of a POST /run request fails, the step leaves the
\* Session document (execution history, totalExecutions) and the User
\* document (totalCodeExecutions) as they were and answers 500 with
\* success false.
C32_FailureRecordsNothing ==
  [][\A i \in 1 .. MaxRequests :
       CallFails(i)
         => /\ sessionDoc' = sessionDoc
            /\ userDoc' = userDoc
            /\ reqs'[i].success = "false"
            /\ sent' = HttpResponse(reqs[i].sessionId, 500)
    ]_vars

\* a request on the session was recorded, and a second one on the same
\* session has just failed with a 5xx answer
C32_Witness ==
  /\ Len(reqs) = 2
  /\ reqs[1].state = "Succeeded" /\ reqs[1].sessionId = "r1"
  /\ reqs[2].state = "Failed" /\ reqs[2].sessionId = "r1"
  /\ reqs[2].success = "false"
  /\ last.ev = "piston-answer" /\ last.code = "500"
  /\ Len(sessionDoc.executionHistory) = 1
  /\ sessionDoc.totalExecutions = 1
  /\ userDoc.totalCodeExecutions = 1

\* the caller is the creator of the stored session or one of its
\* participants marked active
CreatorOrActive ==
  \/ sessionDoc.creator = CallerId
  \/ Member(CallerId, TRUE) \in
       {sessionDoc.activeParticipants[n] : n \in 1 .. Len(sessionDoc.activeParticipants)}

C34_HistoryBounded ==
  LET h == sessionDoc.executionHistory IN
  /\ Len(h) <= HistoryCapacity
  /\ Len(h) = IF now < HistoryCapacity THEN now ELSE HistoryCapacity
  /\ \A n \in 1 .. Len(h) : h[n].executedAt = now - n
  /\ sessionDoc.totalExecutions = now

\* more calls than the history can hold have been made: the count is past
\* the capacity and the history is full, newest call first
C34_Witness ==
  /\ last.ev = "add-execution"
  /\ sessionDoc.totalExecutions > HistoryCapacity
  /\ Len(sessionDoc.executionHistory) = HistoryCapacity
  /\ sessionDoc.executionHistory[1].executedAt = sessionDoc.totalExecutions - 1

\* C35: in every state the stored session has at most maxParticipants
\* entries in activeParticipants.
C35_ParticipantCap ==
  Len(sessionDoc.activeParticipants) <= sessionDoc.maxParticipants

\* C36: a join request of a user who was in activeParticipants when the
\* request loaded the session adds no entry, leaves stats.totalParticipants
\* as it was and is answered 200.
C36_JoinIdempotent ==
  [][\A k \in 1 .. MaxJoins :
       (/\ \E userFound \in {TRUE} : JoinFinish(k, userFound)
        /\ \E n \in 1 .. Len(joins[k].session.activeParticipants) :
             joins[k].session.activeParticipants[n].user = joins[k].user)
         => /\ sessionDoc'.activeParticipants = sessionDoc.activeParticipants
            /\ sessionDoc'.totalParticipants = sessionDoc.totalParticipants
            /\ joins'[k].status = 200
    ]_vars

\* C37: a failed password check that brings the attempt counter to
\* MaxAttempts or beyond leaves the account locked; a login request that
\* finds the account locked is answered 423 and changes nothing; a
\* successful login leaves the counter at 0.
C37_LoginLockout ==
  [][/\ \A k \in 1 .. MaxLogins :
          (LoginFinish(k) /\ ~logins[k].valid /\ userDoc'.loginAttempts >= MaxAttempts)
            => IsLocked(userDoc', now)
     /\ \A cred \in {"good", "bad"} :
          (LoginRoute(cred) /\ IsLocked(userDoc, now))
            => /\ sent' = HttpResponse(Undefined, 423)
               /\ userDoc' = userDoc
               /\ logins' = logins
     /\ \A k \in 1 .. MaxLogins :
          (LoginFinish(k) /\ logins[k].valid) => userDoc'.loginAttempts = 0
    ]_vars

\* position.line exists in the content and has length at least position.column
ValidPosition(content, op) ==
  /\ op.line < Len(Split(content))
  /\ op.column <= Len(Split(content)[op.line + 1])

\* doc after the insert of s at (line, column) and then the delete of
\* Len(s) at (line, column)
InsertThenDelete(doc, line, column, s) ==
  ApplyOperation(ApplyOperation(doc, Operation("insert", line, column, s, 0)),
                 Operation("delete", line, column, << >>, Len(s)))

\* C38: for content whose line position.line exists and has length at least
\* position.column, an insert of a newline-free string s at that position
\* followed by a delete of length |s| at the same position restores the
\* content, raises version by exactly 2 and grows the operations history by
\* 2 entries up to its cap of 100
C38_InsertDeleteRoundTrip ==
  LET lines == Split(codeState.content) IN
  \A line \in 0 .. Len(lines) - 1, s \in NewlineFree(MaxInsertLen) :
    \A column \in 0 .. Len(lines[line + 1]) :
      LET after == InsertThenDelete(codeState, line, column, s) IN
      /\ after.content = codeState.content
      /\ after.version = codeState.version + 2
      /\ Len(after.operations) =
           IF Len(codeState.operations) + 2 > OperationsCapacity
             THEN OperationsCapacity ELSE Len(codeState.operations) + 2

\* an insert of "a" at a position of the content and then the delete of one
\* character there have been applied, with the history at its cap
C38_Witness ==
  /\ Len(codeState.operations) = OperationsCapacity
  /\ codeState.version = 1 + OpsPreload + 2
  /\ codeState.operations[1].type = "delete"
  /\ codeState.operations[2].type = "insert"
  /\ codeState.operations[2].content = <<"a">>
  /\ codeState.operations[1].length = 1
  /\ codeState.operations[1].line = codeState.operations[2].line
  /\ codeState.operations[1].column = codeState.operations[2].column
  /\ ValidPosition(codeState.content, codeState.operations[2])
  /\ IncludesNewline(codeState.content)

====
